---------------------------- MODULE Spec2Model ----------------------------
(***************************************************************************)
(* A model of maildump (src/main.go): one SMTP session as handleConn runs *)
(* it, from accept to the deferred close, with the peer's byte stream,    *)
(* the DNS blocklist resolver and the filesystem as its environment.      *)
(*                                                                         *)
(* Bytes are one-character strings and lines are sequences of bytes, so   *)
(* that trimming, splitting, upper-casing, the address pattern and the    *)
(* byte-by-byte line reader are computed as the code computes them.       *)
(***************************************************************************)
EXTENDS Naturals, Sequences, FiniteSets, TLC

(***************************************************************************)
(* Bounds of the model.                                                    *)
(***************************************************************************)
\* longest script (in pieces) a peer sends in Spec
MaxLines == 3
\* longest script (in pieces) a peer sends in SpecVerbs
MaxVerbLines == 2

\* the longest bracketed address among the inputs of the sanitizer
MaxAddr == 2

(***************************************************************************)
(* Bytes and strings (packages strings, regexp).                           *)
(***************************************************************************)
Lower ==
    <<"a", "b", "c", "d", "e", "f", "g", "h", "i", "j", "k", "l", "m",
      "n", "o", "p", "q", "r", "s", "t", "u", "v", "w", "x", "y", "z">>
Upper ==
    <<"A", "B", "C", "D", "E", "F", "G", "H", "I", "J", "K", "L", "M",
      "N", "O", "P", "Q", "R", "S", "T", "U", "V", "W", "X", "Y", "Z">>
Digits ==
    <<"0", "1", "2", "3", "4", "5", "6", "7", "8", "9">>

Range(s) == {s[i] : i \in DOMAIN s}

\* unicode.IsSpace restricted to ASCII, as strings.TrimSpace uses it
IsSpace(c) == c \in {" ", "\t", "\n", "\r", "\f"}

\* strings.ToUpper on one byte
ToUpperByte(c) ==
    IF c \in Range(Lower)
    THEN Upper[CHOOSE i \in DOMAIN Lower : Lower[i] = c]
    ELSE c

\* strings.ToUpper
ToUpper(s) == [i \in DOMAIN s |-> ToUpperByte(s[i])]

\* strings.TrimSpace: drop leading and trailing white space
TrimSpace(s) ==
    LET keep == {i \in DOMAIN s : ~IsSpace(s[i])}
    IN  IF keep = {} THEN <<>>
        ELSE LET lo == CHOOSE i \in keep : \A j \in keep : i <= j
                 hi == CHOOSE i \in keep : \A j \in keep : j <= i
             IN  SubSeq(s, lo, hi)

\* strings.Split(s, sep) for a one-byte separator
RECURSIVE Split(_, _)
Split(s, sep) ==
    LET at == {i \in DOMAIN s : s[i] = sep}
    IN  IF at = {} THEN <<s>>
        ELSE LET k == CHOOSE i \in at : \A j \in at : i <= j
             IN  <<SubSeq(s, 1, k - 1)>> \o Split(SubSeq(s, k + 1, Len(s)), sep)

\* strings.Join(parts, sep)
RECURSIVE Join(_, _)
Join(parts, sep) ==
    IF parts = <<>> THEN <<>>
    ELSE IF Len(parts) = 1 THEN parts[1]
    ELSE parts[1] \o <<sep>> \o Join(Tail(parts), sep)

\* the slice reversal of toIPAddress
Reverse(s) == [i \in DOMAIN s |-> s[Len(s) + 1 - i]]

\* the literal lit occurs in s at position i
MatchAt(s, i, lit) ==
    /\ i >= 1
    /\ i + Len(lit) - 1 <= Len(s)
    /\ \A k \in DOMAIN lit : s[i + k - 1] = lit[k]

(***************************************************************************)
(* Reply codes, commands and the two tables.                               *)
(***************************************************************************)
ReplyServiceReady == "220 mail.lf.lc ESMTP dumptruck"
ReplyServiceClosing == "221 goodbye"
ReplyOkay == "250 yes sir"
ReplyStartMailInput == "354 fill 'er up"
ReplyServiceNotAvailable == "421 not at the moment"
ReplyCommandNotImplemented == "502 *shrugs*"

CommandEhlo == 0
CommandHelo == 1
CommandMail == 2
CommandRcpt == 3
CommandData == 4
CommandRset == 5
CommandVrfy == 6
CommandExpn == 7
CommandHelp == 8
CommandNoop == 9
CommandQuit == 10

\* replyTable: CommandHelo has no entry
replyTable ==
    [c \in {CommandEhlo, CommandMail, CommandRcpt, CommandData, CommandRset,
            CommandVrfy, CommandExpn, CommandHelp, CommandNoop, CommandQuit} |->
        CASE c = CommandData -> ReplyStartMailInput
          [] c = CommandExpn -> ReplyCommandNotImplemented
          [] c = CommandHelp -> ReplyCommandNotImplemented
          [] c = CommandQuit -> ReplyServiceClosing
          [] OTHER -> ReplyOkay]

\* commandTable: the pairs <<verb, command>>; "HELO" maps to CommandEhlo
commandTable ==
    { <<(<<"E", "H", "L", "O">>), CommandEhlo>>,
      <<(<<"H", "E", "L", "O">>), CommandEhlo>>,
      <<(<<"M", "A", "I", "L">>), CommandMail>>,
      <<(<<"R", "C", "P", "T">>), CommandRcpt>>,
      <<(<<"D", "A", "T", "A">>), CommandData>>,
      <<(<<"R", "S", "E", "T">>), CommandRset>>,
      <<(<<"V", "R", "F", "Y">>), CommandVrfy>>,
      <<(<<"E", "X", "P", "N">>), CommandExpn>>,
      <<(<<"H", "E", "L", "P">>), CommandHelp>>,
      <<(<<"N", "O", "O", "P">>), CommandNoop>>,
      <<(<<"Q", "U", "I", "T">>), CommandQuit>> }

\* cmd, exists := commandTable[key]: a missing key yields the zero Command,
\* which is CommandEhlo
LookupCommand(key) ==
    LET hit == {e \in commandTable : e[1] = key}
    IN  IF hit = {} THEN [cmd |-> CommandEhlo, exists |-> FALSE]
        ELSE [cmd |-> (CHOOSE e \in hit : TRUE)[2], exists |-> TRUE]

\* replyCommand as it would be without strings.ToUpper: the verb is looked
\* up in the case the peer wrote it
replyCommandCaseSensitive(line) ==
    LET args == Split(TrimSpace(line), " ")
        look == LookupCommand(args[1])
    IN  [cmd   |-> look.cmd,
         reply |-> IF look.exists
                   THEN IF look.cmd \in DOMAIN replyTable
                        THEN replyTable[look.cmd]
                        ELSE ReplyCommandNotImplemented
                   ELSE ReplyOkay]

\* replyCommand without its write: the reply it hands to fmt.Fprintln and
\* the Command it returns
replyCommand(line) ==
    LET args == Split(TrimSpace(line), " ")
        look == LookupCommand(ToUpper(args[1]))
    IN  [cmd   |-> look.cmd,
         reply |-> IF look.exists
                   THEN IF look.cmd \in DOMAIN replyTable
                        THEN replyTable[look.cmd]
                        ELSE ReplyCommandNotImplemented
                   ELSE ReplyOkay]

(***************************************************************************)
(* The Line Reader: readCommand, one conn.Read of one byte per iteration.  *)
(***************************************************************************)
\* cap(rawData): rawData := make([]byte, 1024)
BufCap == 1024

\* one iteration of readCommand's loop on a byte the peer delivered; st is
\* the loop's state: buf[:length], the bytes taken from the connection, and
\* whether the function has returned
readByte(st, datum) ==
    IF st.done THEN st
    ELSE IF st.length < BufCap
         THEN [buf    |-> Append(st.buf, datum),
               length |-> st.length + 1,
               used   |-> st.used + 1,
               done   |-> datum = "\n"]
         ELSE [st EXCEPT !.used = st.used + 1]

\* the loop over conn[lo..hi], folded by halves to keep the evaluation flat
RECURSIVE readLoop(_, _, _, _)
readLoop(st, conn, lo, hi) ==
    IF st.done \/ lo > hi THEN st
    ELSE IF lo = hi THEN readByte(st, conn[lo])
    ELSE LET mid == (lo + hi) \div 2
         IN  readLoop(readLoop(st, conn, lo, mid), conn, mid + 1, hi)

\* readCommand as it would be if a failed conn.Read handed back the bytes
\* of the unfinished line as a line
readCommandPartial(conn) ==
    LET st == readLoop([buf |-> <<>>, length |-> 0, used |-> 0, done |-> FALSE],
                       conn, 1, Len(conn))
    IN  IF st.done
        THEN [n |-> st.length, err |-> FALSE, buf |-> st.buf,
              rest |-> SubSeq(conn, st.used + 1, Len(conn))]
        ELSE [n |-> st.length, err |-> st.length = 0, buf |-> st.buf,
              rest |-> <<>>]

\* readCommand(conn, buf) on the bytes still to arrive: when they run out
\* before the function returned, the next conn.Read fails (the peer is gone)
\* and readCommand returns 0, err
readCommand(conn) ==
    LET st == readLoop([buf |-> <<>>, length |-> 0, used |-> 0, done |-> FALSE],
                       conn, 1, Len(conn))
    IN  IF st.done
        THEN [n |-> st.length, err |-> FALSE, buf |-> st.buf,
              rest |-> SubSeq(conn, st.used + 1, Len(conn))]
        ELSE [n |-> 0, err |-> TRUE, buf |-> st.buf, rest |-> <<>>]

(***************************************************************************)
(* The Address Sanitizer.                                                  *)
(***************************************************************************)
defaultAddr ==
    <<"i", "n", "v", "a", "l", "i", "d", "@", "a", "d", "d", "r">>

\* the position of the ':' when "(MAIL|RCPT) (FROM|TO|From|To):" matches s
\* at position i, and 0 when it does not
KeywordColon(s, i) ==
    LET verbs == { <<"M", "A", "I", "L">>, <<"R", "C", "P", "T">> }
        keys  == { <<"F", "R", "O", "M">>, <<"T", "O">>,
                   <<"F", "r", "o", "m">>, <<"T", "o">> }
        ends  == { i + 5 + Len(k) : k \in
                     { k \in keys : /\ \E v \in verbs : MatchAt(s, i, v)
                                    /\ MatchAt(s, i + 4, <<" ">>)
                                    /\ MatchAt(s, i + 5, k)
                                    /\ MatchAt(s, i + 5 + Len(k), <<":">>) } }
    IN  IF ends = {} THEN 0 ELSE CHOOSE p \in ends : TRUE

\* the position of the first '>' after position j, and 0 when there is none
FirstClose(s, j) ==
    LET at == {k \in DOMAIN s : k > j /\ s[k] = ">"}
    IN  IF at = {} THEN 0 ELSE CHOOSE k \in at : \A m \in at : k <= m

\* the positions j of a '<' at which ".*<([^>]+)>" can match after the ':'
\* at position p: '.' does not match a newline, [^>]+ is not empty
OpenCandidates(s, p) ==
    {j \in DOMAIN s :
        /\ j > p
        /\ s[j] = "<"
        /\ \A m \in (p + 1)..(j - 1) : s[m] # "\n"
        /\ FirstClose(s, j) >= j + 2}

\* re.FindAllStringSubmatch(dirty, 1): the third group of the leftmost match
\* (the greedy ".*" takes the last '<' that lets the rest match), or found
\* FALSE when the pattern matches nowhere
FindSubmatch(dirty) ==
    LET starts == {i \in DOMAIN dirty :
                      /\ KeywordColon(dirty, i) # 0
                      /\ OpenCandidates(dirty, KeywordColon(dirty, i)) # {}}
    IN  IF starts = {} THEN [found |-> FALSE, addr |-> <<>>]
        ELSE LET i    == CHOOSE x \in starts : \A y \in starts : x <= y
                 cand == OpenCandidates(dirty, KeywordColon(dirty, i))
                 j    == CHOOSE x \in cand : \A y \in cand : y <= x
             IN  [found |-> TRUE,
                  addr  |-> SubSeq(dirty, j + 1, FirstClose(dirty, j) - 1)]

\* the class as it would be without '@': "[^a-zA-Z0-9]+"
IsAddrByteNoAt(c) == c \in Range(Lower) \cup Range(Upper) \cup Range(Digits)

\* a byte of the class [a-zA-Z0-9@]
IsAddrByte(c) == c \in Range(Lower) \cup Range(Upper) \cup Range(Digits) \cup {"@"}

\* regexp "[^a-zA-Z0-9@]+" ReplaceAllString(addr, "."): each maximal run of
\* other bytes becomes one '.'
RECURSIVE ReplaceRuns(_)
ReplaceRuns(addr) ==
    IF addr = <<>> THEN <<>>
    ELSE IF IsAddrByte(Head(addr)) THEN <<Head(addr)>> \o ReplaceRuns(Tail(addr))
    ELSE IF Len(addr) >= 2 /\ ~IsAddrByte(addr[2]) THEN ReplaceRuns(Tail(addr))
    ELSE <<".">> \o ReplaceRuns(Tail(addr))

\* the sanitizer as it would be if a line without an address were filtered
\* and returned
sanitizeAddrOrDirty(dirty) ==
    LET subs == FindSubmatch(dirty)
    IN  IF subs.found /\ Len(subs.addr) > 0
        THEN ReplaceRuns(subs.addr)
        ELSE ReplaceRuns(dirty)

sanitizeAddr(dirty) ==
    LET subs == FindSubmatch(dirty)
    IN  IF subs.found /\ Len(subs.addr) > 0
        THEN ReplaceRuns(subs.addr)
        ELSE defaultAddr

(***************************************************************************)
(* The Reputation Checker.                                                 *)
(***************************************************************************)
\* toIPAddress: the host part of addr with its dotted parts reversed
toIPAddress(addr) ==
    Join(Reverse(Split(Split(addr, ":")[1], ".")), ".")

\* serverBlocklist, by position
serverBlocklist ==
    <<".zen.spamhaus.org", ".bl.spamcop.net", ".b.barracudacentral.org",
      ".dnsbl.sorbs.net">>

\* the test of err inverted: err != nil
LookupFailed(res) == res # "ok"

\* only "no such host" taken as not listed, any other answer as a listing
LookupNotNxdomain(res) == res # "nxdomain"

\* err == nil for the answer of net.LookupHost
LookupSucceeded(res) == res = "ok"

\* what net.LookupHost can answer for one zone: addresses, "no such host",
\* or another resolver error
LookupResults == {"ok", "nxdomain", "servfail"}

(***************************************************************************)
(* What a peer sends: command lines, body lines and an unfinished line.    *)
(***************************************************************************)
\* 'EHLO x\r\n', 8 bytes
LineEhlo ==
    <<"E", "H", "L", "O", " ", "x", "\r", "\n">>
\* 'helo x\r\n', 8 bytes
LineHelo ==
    <<"h", "e", "l", "o", " ", "x", "\r", "\n">>
\* 'MAIL FROM:<a@b.com>\r\n', 21 bytes
LineMail ==
    <<"M", "A", "I", "L", " ", "F", "R", "O", "M", ":", "<", "a", "@", "b", ".", "c", "o", "m", ">", "\r", "\n">>
\* 'RCPT TO:<c@d.com>\r\n', 19 bytes
LineRcpt ==
    <<"R", "C", "P", "T", " ", "T", "O", ":", "<", "c", "@", "d", ".", "c", "o", "m", ">", "\r", "\n">>
\* 'RCPT TO:<e!#f@g.com>\r\n', 22 bytes
LineRcptDirty ==
    <<"R", "C", "P", "T", " ", "T", "O", ":", "<", "e", "!", "#", "f", "@", "g", ".", "c", "o", "m", ">", "\r", "\n">>
\* 'RCPT TO:<>\r\n', 12 bytes
LineRcptEmpty ==
    <<"R", "C", "P", "T", " ", "T", "O", ":", "<", ">", "\r", "\n">>
\* 'rcpt to:<c@d.com>\r\n', 19 bytes
LineRcptLower ==
    <<"r", "c", "p", "t", " ", "t", "o", ":", "<", "c", "@", "d", ".", "c", "o", "m", ">", "\r", "\n">>
\* 'DATA\r\n', 6 bytes
LineData ==
    <<"D", "A", "T", "A", "\r", "\n">>
\* ' data\n', 6 bytes
LineDataLower ==
    <<" ", "d", "a", "t", "a", "\n">>
\* 'RSET\r\n', 6 bytes
LineRset ==
    <<"R", "S", "E", "T", "\r", "\n">>
\* 'VRFY c\r\n', 8 bytes
LineVrfy ==
    <<"V", "R", "F", "Y", " ", "c", "\r", "\n">>
\* 'Expn c\r\n', 8 bytes
LineExpn ==
    <<"E", "x", "p", "n", " ", "c", "\r", "\n">>
\* 'HELP\r\n', 6 bytes
LineHelp ==
    <<"H", "E", "L", "P", "\r", "\n">>
\* 'NOOP\r\n', 6 bytes
LineNoop ==
    <<"N", "O", "O", "P", "\r", "\n">>
\* 'QUIT\r\n', 6 bytes
LineQuit ==
    <<"Q", "U", "I", "T", "\r", "\n">>
\* 'quit\n', 5 bytes
LineQuitLower ==
    <<"q", "u", "i", "t", "\n">>
\* 'FOO x\r\n', 7 bytes
LineUnknown ==
    <<"F", "O", "O", " ", "x", "\r", "\n">>
\* '\r\n', 2 bytes
LineEmpty ==
    <<"\r", "\n">>
\* 'hello body\r\n', 12 bytes
LineBody ==
    <<"h", "e", "l", "l", "o", " ", "b", "o", "d", "y", "\r", "\n">>
\* 'Subject: greetings from a.b.com\r\n', 33 bytes
LineSubject ==
    <<"S", "u", "b", "j", "e", "c", "t", ":", " ", "g", "r", "e", "e", "t", "i", "n", "g", "s", " ", "f", "r", "o", "m", " ", "a", ".", "b", ".", "c", "o", "m", "\r", "\n">>
\* '.\r\n', 3 bytes
LineDot ==
    <<".", "\r", "\n">>
\* '..x\r\n', 5 bytes
LineDotStuffed ==
    <<".", ".", "x", "\r", "\n">>
\* 'QUI', 3 bytes
FragQuit ==
    <<"Q", "U", "I">>

\* conn.RemoteAddr().String() of the peer
RemoteAddr ==
    <<"1", "9", "2", ".", "0", ".", "2", ".", "7", ":", "4", "0", "0", "0", "0">>

\* the pieces of the scripts of Spec
CoreLines ==
    {LineMail, LineRcpt, LineRcptDirty, LineRcptEmpty, LineData, LineDot,
     LineSubject, LineQuit, FragQuit}

\* every piece: each verb of the command table, in some letter case, too
AllLines ==
    CoreLines \cup
    {LineEhlo, LineHelo, LineRcptLower, LineDataLower, LineBody, LineRset,
     LineVrfy, LineExpn, LineHelp, LineNoop, LineQuitLower, LineUnknown,
     LineEmpty, LineDotStuffed}

\* the byte streams made of at most n pieces of S
RECURSIVE Wires(_, _)
Wires(S, n) ==
    IF n = 0 THEN {<<>>}
    ELSE LET shorter == Wires(S, n - 1)
         IN  shorter \cup {w \o x : w \in shorter, x \in S}

\* one whole delivery: greeting, envelope, DATA, one body line, the dot-line
\* and QUIT, line by line
DeliveryLines ==
    <<LineEhlo, LineMail, LineRcpt, LineData, LineBody, LineDot, LineQuit>>

\* a few whole sessions, for the runs that vary the resolver and the network
SampleWires ==
    { <<>>,
      LineQuit,
      LineEhlo \o LineMail \o LineRcpt \o LineData \o LineBody \o LineDot
          \o LineQuit,
      LineMail \o LineRcpt \o LineData \o LineBody \o LineDot \o LineQuit,
      LineRcpt \o LineSubject \o FragQuit,
      LineData \o LineSubject \o LineBody \o FragQuit }

(***************************************************************************)
(* The session: handleConn and its environment.                            *)
(***************************************************************************)
VARIABLES
    spamDetection,  \* the -spam flag
    resolver,       \* environment: what net.LookupHost answers for each zone
    wire,           \* environment: the bytes the peer sends before it goes
    brokenAt,       \* environment: the first write to the peer that fails
                    \* (and every later one), 0 when none does
    pc,             \* where handleConn stands
    ret,            \* the return statement handleConn left by, "" before
    server,         \* isSpammerAddr: the position in serverBlocklist
    queried,        \* the zones looked up so far, in order
    output,         \* the temporary file: its state and its bytes
    toAddr,         \* handleConn: toAddr
    remoteIP,       \* handleConn: remoteIP
    rawData,        \* handleConn: the bytes the last readCommand put in rawData
    bytesRead,      \* handleConn: bytesRead of the last readCommand
    readingData,    \* handleConn: readingData
    sent,           \* the lines written to the peer, each with its outcome
    reads,          \* the calls of readCommand so far
    lines,          \* the lines readCommand returned so far, in order
    connOpen,       \* the connection is not yet closed by the handler
    dir,            \* the output directory: message name -> bytes
    alive,          \* main: the process is running
    sess            \* main: the handlers started by the accept loop, in order

vars ==
    <<spamDetection, resolver, wire, brokenAt, pc, ret, server, queried,
      output, toAddr, remoteIP, rawData, bytesRead, readingData, sent, reads,
      lines, connOpen, dir, alive, sess>>

\* stats.Size() > 50
SizeFloor == 50

\* time.Now().Unix() at the copy
Clock == {1700000000}

\* conn.Write / fmt.Fprintln(conn, line): the line and whether the write
\* succeeded
connWrite(log, line) ==
    Append(log, [line |-> line,
                 ok   |-> ~(brokenAt # 0 /\ Len(log) + 1 >= brokenAt)])

\* the deferred calls without os.Remove: the file is closed and stays
DeferredCloseOnly(out) ==
    IF out.state \in {"open", "closed"}
    THEN [out EXCEPT !.state = "closed"]
    ELSE out

\* the deferred calls of handleConn on the temporary file: os.Remove and
\* output.Close, registered once ioutil.TempFile has succeeded
Deferred(out) ==
    IF out.state \in {"open", "closed"}
    THEN [state |-> "removed", data |-> <<>>]
    ELSE out

\* a return of handleConn: the deferred calls run, conn.Close last
Return(r, out) ==
    /\ pc' = "done"
    /\ ret' = r
    /\ output' = Deferred(out)
    /\ connOpen' = FALSE

\* the state in which the accept loop starts handleConn(conn)
Accepted ==
    /\ pc = "accept"
    /\ ret = ""
    /\ server = 0
    /\ queried = <<>>
    /\ output = [state |-> "none", data |-> <<>>]
    /\ toAddr = <<>>
    /\ remoteIP = <<>>
    /\ rawData = <<>>
    /\ bytesRead = 0
    /\ readingData = FALSE
    /\ sent = <<>>
    /\ reads = 0
    /\ lines = <<>>
    /\ connOpen = TRUE
    /\ dir = <<>>
    /\ alive = TRUE
    /\ sess = <<>>

\* a line of n bytes, its '\n' included
LineOfLength(n) == [i \in 1..(n - 1) |-> "a"] \o <<"\n">>

\* sessions that open with a line of exactly the capacity of rawData, and
\* with a line one byte longer
LongWires ==
    { LineOfLength(BufCap) \o LineQuit,
      LineOfLength(BufCap + 1) \o LineQuit }

\* a session with spam detection off over a sound network
PlainEnv ==
    /\ spamDetection = FALSE
    /\ resolver = [z \in DOMAIN serverBlocklist |-> "nxdomain"]
    /\ brokenAt = 0

\* the sample sessions under every resolver, and under a failing network
SampleEnv ==
    /\ wire \in SampleWires
    /\ \/ /\ spamDetection = TRUE
          /\ resolver \in [DOMAIN serverBlocklist -> LookupResults]
          /\ brokenAt = 0
       \/ /\ spamDetection = FALSE
          /\ resolver = [z \in DOMAIN serverBlocklist |-> "nxdomain"]
          /\ brokenAt \in 1..3

Init ==
    /\ Accepted
    /\ \/ PlainEnv /\ wire \in Wires(CoreLines, MaxLines)
       \/ PlainEnv /\ wire \in LongWires
       \/ SampleEnv

InitVerbs ==
    /\ Accepted
    /\ \/ PlainEnv /\ wire \in Wires(AllLines, MaxVerbLines)
       \/ SampleEnv

\* line 167 without the flag: isSpammerAddr is called for every peer
HandleConnAlwaysChecks ==
    /\ pc = "accept"
    /\ pc' = "lookup"
    /\ server' = 1
    /\ UNCHANGED <<spamDetection, resolver, wire, brokenAt, ret, queried,
                   output, toAddr, remoteIP, rawData, bytesRead, readingData,
                   sent, reads, lines, connOpen, dir>>
    /\ UNCHANGED <<alive, sess>>

\* handleConn, line 167: spamDetection && isSpammerAddr(...)
HandleConn ==
    /\ pc = "accept"
    /\ IF spamDetection
       THEN pc' = "lookup" /\ server' = 1
       ELSE pc' = "tempfile" /\ server' = server
    /\ UNCHANGED <<spamDetection, resolver, wire, brokenAt, ret, queried,
                   output, toAddr, remoteIP, rawData, bytesRead, readingData,
                   sent, reads, lines, connOpen, dir>>
    /\ UNCHANGED <<alive, sess>>

\* one iteration of isSpammerAddr's loop; on a listed peer handleConn
\* returns at once, after the last zone it goes on
LookupHost ==
    /\ pc = "lookup"
    /\ queried' = Append(queried, server)
    /\ IF LookupSucceeded(resolver[server])
       THEN /\ Return("discard", output)
            /\ server' = server
       ELSE /\ server' = server + 1
            /\ pc' = IF server = Len(serverBlocklist) THEN "tempfile" ELSE "lookup"
            /\ UNCHANGED <<ret, output, connOpen>>
    /\ UNCHANGED <<spamDetection, resolver, wire, brokenAt, toAddr, remoteIP,
                   rawData, bytesRead, readingData, sent, reads, lines, dir>>
    /\ UNCHANGED <<alive, sess>>

\* ioutil.TempFile, then toAddr and remoteIP
TempFile ==
    /\ pc = "tempfile"
    /\ \E ok \in BOOLEAN :
          IF ok
          THEN /\ output' = [state |-> "open", data |-> <<>>]
               /\ toAddr' = defaultAddr
               /\ remoteIP' = toIPAddress(RemoteAddr)
               /\ pc' = "banner"
               /\ UNCHANGED <<ret, connOpen>>
          ELSE /\ Return("tempfile", output)
               /\ UNCHANGED <<toAddr, remoteIP>>
    /\ UNCHANGED <<spamDetection, resolver, wire, brokenAt, server, queried,
                   rawData, bytesRead, readingData, sent, reads, lines, dir>>
    /\ UNCHANGED <<alive, sess>>

\* the service-ready banner, then rawData and readingData
Banner ==
    /\ pc = "banner"
    /\ sent' = connWrite(sent, ReplyServiceReady)
    /\ IF sent'[Len(sent')].ok
       THEN /\ pc' = "loop"
            /\ UNCHANGED <<ret, output, connOpen>>
       ELSE Return("banner", output)
    /\ UNCHANGED <<spamDetection, resolver, wire, brokenAt, server, queried,
                   toAddr, remoteIP, rawData, bytesRead, readingData, reads,
                   lines, dir>>
    /\ UNCHANGED <<alive, sess>>

\* the write as it would be on a file rewound before each write
captureWriteOverwrite(data, buf, n) == SubSeq(buf, 1, n)

\* output.Write(rawData[:bytesRead])
captureWrite(data, buf, n) == data \o SubSeq(buf, 1, n)

\* the loop without its readingData guard: every line is dispatched
afterDotNever(reading, buf) == FALSE

\* the loop without its test for the dot-line: DATA mode never ends
afterDotForgotten(reading, buf) == reading

\* lines 202-204: readingData after the test for the dot-line
afterDot(reading, buf) == reading /\ ~(buf[1] = ".")

\* the switch as it would be with MAIL sharing the case of RCPT
nextToAddrAnyEnvelope(addr, cmd, data) ==
    IF cmd \in {CommandMail, CommandRcpt} THEN sanitizeAddr(data) ELSE addr

\* case CommandRcpt as it would be if a line without an address left the
\* recipient alone
nextToAddrKeepValid(addr, cmd, data) ==
    IF cmd = CommandRcpt /\ sanitizeAddr(data) # defaultAddr
    THEN sanitizeAddr(data)
    ELSE addr

\* case CommandRcpt
nextToAddr(addr, cmd, data) ==
    IF cmd = CommandRcpt THEN sanitizeAddr(data) ELSE addr

\* case CommandData
nextReadingData(reading, cmd) ==
    IF cmd = CommandData THEN TRUE ELSE reading

\* case CommandQuit with a plain break, which leaves the switch only
leavesLoopNever(cmd) == FALSE

\* case CommandQuit: break CommandParse
leavesLoop(cmd) == cmd = CommandQuit

\* readCommand failed: break
ReadFailure ==
    /\ pc = "loop"
    /\ LET r == readCommand(wire)
       IN  /\ r.err
           /\ wire' = r.rest
           /\ rawData' = r.buf
           /\ bytesRead' = r.n
    /\ reads' = reads + 1
    /\ pc' = "finalize"
    /\ UNCHANGED <<spamDetection, resolver, brokenAt, ret, server, queried,
                   output, toAddr, remoteIP, readingData, sent, lines,
                   connOpen, dir>>
    /\ UNCHANGED <<alive, sess>>

\* one iteration of the CommandParse loop on a line readCommand returned
CommandParse ==
    /\ pc = "loop"
    /\ LET r == readCommand(wire)
       IN  /\ ~r.err
           /\ wire' = r.rest
           /\ rawData' = r.buf
           /\ bytesRead' = r.n
           /\ lines' = Append(lines, SubSeq(r.buf, 1, r.n))
           /\ output' = [output EXCEPT !.data = captureWrite(@, r.buf, r.n)]
           /\ IF afterDot(readingData, r.buf)
              THEN /\ readingData' = TRUE
                   /\ pc' = "loop"
                   /\ UNCHANGED <<sent, toAddr>>
              ELSE LET data == SubSeq(r.buf, 1, r.n)
                       rc   == replyCommand(data)
                   IN  /\ sent' = connWrite(sent, rc.reply)
                       /\ toAddr' = nextToAddr(toAddr, rc.cmd, data)
                       /\ readingData' = nextReadingData(FALSE, rc.cmd)
                       /\ pc' = IF leavesLoop(rc.cmd) THEN "finalize" ELSE "loop"
    /\ reads' = reads + 1
    /\ UNCHANGED <<spamDetection, resolver, brokenAt, ret, server, queried,
                   remoteIP, connOpen, dir>>
    /\ UNCHANGED <<alive, sess>>

\* the size test with >= for >
persistsAtFloor(size) == size >= SizeFloor

\* stats.Size() > 50
persists(size) == size > SizeFloor

\* output.Sync, output.Stat, output.Close and the test of the size
Finalize ==
    /\ pc = "finalize"
    /\ \E statOk \in BOOLEAN :
          LET closed == [output EXCEPT !.state = "closed"]
          IN  IF ~statOk THEN Return("stat", closed)
              ELSE IF persists(Len(output.data))
              THEN /\ pc' = "copy"
                   /\ output' = closed
                   /\ UNCHANGED <<ret, connOpen>>
              ELSE Return("end", closed)
    /\ UNCHANGED <<spamDetection, resolver, wire, brokenAt, server, queried,
                   toAddr, remoteIP, rawData, bytesRead, readingData, sent,
                   reads, lines, dir>>
    /\ UNCHANGED <<alive, sess>>

\* copyFileContents(src, dst) with the bytes data of src: how is "ok" or
\* the call that failed, part is what io.Copy wrote before it failed
copyFileContents(files, data, dst, how, part) ==
    CASE how = "ok"     -> [files |-> (dst :> data) @@ files, err |-> FALSE]
      [] how = "open"   -> [files |-> files, err |-> TRUE]
      [] how = "create" -> [files |-> files, err |-> TRUE]
      [] how = "copy"   -> [files |-> (dst :> SubSeq(data, 1, part)) @@ files,
                            err |-> TRUE]
      [] how = "close"  -> [files |-> (dst :> data) @@ files, err |-> TRUE]

\* fmt.Sprintf(messageNameFormat, toAddr, remoteIP, time.Now().Unix())
messageName(addr, ip, now) == <<addr, ip, now>>

\* the copy to the output directory and the end of handleConn
Copy ==
    /\ pc = "copy"
    /\ \E now \in Clock, how \in {"ok", "open", "create", "copy", "close"},
          part \in {0, Len(output.data) - 1} :
          LET c == copyFileContents(dir, output.data,
                                    messageName(toAddr, remoteIP, now), how, part)
          IN  /\ dir' = c.files
              /\ Return(IF c.err THEN "copy" ELSE "end", output)
    /\ UNCHANGED <<spamDetection, resolver, wire, brokenAt, server, queried,
                   toAddr, remoteIP, rawData, bytesRead, readingData, sent,
                   reads, lines>>
    /\ UNCHANGED <<alive, sess>>

Next ==
    \/ HandleConn
    \/ LookupHost
    \/ TempFile
    \/ Banner
    \/ ReadFailure
    \/ CommandParse
    \/ Finalize
    \/ Copy

Spec == Init /\ [][Next]_vars

SpecVerbs == InitVerbs /\ [][Next]_vars

(***************************************************************************)
(* The sanitizer on its own: sanitizeAddr applied to a line, and applied   *)
(* again to what it returned.                                              *)
(***************************************************************************)
\* the strings of at most n bytes of S
RECURSIVE Strings(_, _)
Strings(S, n) ==
    IF n = 0 THEN {<<>>}
    ELSE LET shorter == Strings(S, n - 1)
         IN  shorter \cup {Append(w, x) : w \in shorter, x \in S}

\* the bytes of the bracketed addresses
AddrBytes == {"c", "@", "!", "#", ">"}

\* the verbs and the keywords of the envelope lines, in several letter cases
EnvelopeVerbs ==
    { <<"R", "C", "P", "T", " ">>, <<"r", "c", "p", "t", " ">>,
      <<"R", "c", "p", "t", " ">>, <<"M", "A", "I", "L", " ">> }

EnvelopeKeywords ==
    { <<"T", "O", ":">>, <<"T", "o", ":">>, <<"t", "o", ":">>,
      <<"t", "O", ":">>, <<"F", "R", "O", "M", ":">> }

\* envelope lines with a bracketed address of at most MaxAddr bytes
SanitizeInputs ==
    { v \o k \o <<"<">> \o a \o <<">", "\r", "\n">> :
          v \in EnvelopeVerbs, k \in EnvelopeKeywords,
          a \in Strings(AddrBytes, MaxAddr) }

InitSanitize ==
    /\ pc = "sanitize"
    /\ rawData \in SanitizeInputs \cup {LineRcpt, LineRcptDirty, LineMail, LineQuit}
    /\ bytesRead = Len(rawData)
    /\ toAddr = defaultAddr
    /\ spamDetection = FALSE
    /\ resolver = [z \in DOMAIN serverBlocklist |-> "nxdomain"]
    /\ wire = <<>>
    /\ brokenAt = 0
    /\ ret = ""
    /\ server = 0
    /\ queried = <<>>
    /\ output = [state |-> "none", data |-> <<>>]
    /\ remoteIP = <<>>
    /\ readingData = FALSE
    /\ sent = <<>>
    /\ reads = 0
    /\ lines = <<>>
    /\ connOpen = TRUE
    /\ dir = <<>>
    /\ alive = TRUE
    /\ sess = <<>>

\* toAddr = sanitizeAddr(string(rawData[:bytesRead]))
Sanitize ==
    /\ pc = "sanitize"
    /\ toAddr' = sanitizeAddr(SubSeq(rawData, 1, bytesRead))
    /\ pc' = "sanitized"
    /\ UNCHANGED <<spamDetection, resolver, wire, brokenAt, ret, server,
                   queried, output, remoteIP, rawData, bytesRead, readingData,
                   sent, reads, lines, connOpen, dir>>
    /\ UNCHANGED <<alive, sess>>

\* sanitizeAddr applied to its own result
Resanitize ==
    /\ pc = "sanitized"
    /\ toAddr' = sanitizeAddr(toAddr)
    /\ pc' = "resanitized"
    /\ UNCHANGED <<spamDetection, resolver, wire, brokenAt, ret, server,
                   queried, output, remoteIP, rawData, bytesRead, readingData,
                   sent, reads, lines, connOpen, dir>>
    /\ UNCHANGED <<alive, sess>>

NextSanitize ==
    \/ Sanitize
    \/ Resanitize

SpecSanitize == InitSanitize /\ [][NextSanitize]_vars

(***************************************************************************)
(* The process: main's accept loop and the handlers it starts, which run   *)
(* concurrently and share the output directory.  A handler is followed     *)
(* here from its start to its copy, and the copy call by call.             *)
(***************************************************************************)
\* the handlers started in one run
MaxConns == 2

\* captures over the size floor, as two sessions of one peer leave them
Captures ==
    { LineRcpt \o LineSubject,
      LineMail \o LineRcpt \o LineSubject }

\* time.Now().Unix() at the copies of two sessions: the same second or the
\* next
ServerClock == {1700000000, 1700000001}

\* every variable of a single handler but the output directory
handlerVars ==
    <<spamDetection, resolver, wire, brokenAt, pc, ret, server, queried,
      output, toAddr, remoteIP, rawData, bytesRead, readingData, sent, reads,
      lines, connOpen>>

InitServer ==
    /\ pc = "serve"
    /\ alive = TRUE
    /\ sess = <<>>
    /\ dir = <<>>
    /\ spamDetection = FALSE
    /\ resolver = [z \in DOMAIN serverBlocklist |-> "nxdomain"]
    /\ wire = <<>>
    /\ brokenAt = 0
    /\ ret = ""
    /\ server = 0
    /\ queried = <<>>
    /\ output = [state |-> "none", data |-> <<>>]
    /\ toAddr = <<>>
    /\ remoteIP = <<>>
    /\ rawData = <<>>
    /\ bytesRead = 0
    /\ readingData = FALSE
    /\ sent = <<>>
    /\ reads = 0
    /\ lines = <<>>
    /\ connOpen = TRUE

\* a handler as `go handleConn(conn)` starts it
Started(conn) ==
    [conn |-> conn, at |-> "handle", data |-> <<>>, dst |-> <<>>, err |-> FALSE]

\* one iteration of the accept loop: ln.Accept(), the error printed if
\* there is one, then go handleConn(conn) in either case
Accept ==
    /\ alive
    /\ Len(sess) < MaxConns
    /\ \E ok \in BOOLEAN :
          sess' = Append(sess, Started(IF ok THEN "open" ELSE "nil"))
    /\ UNCHANGED <<alive, dir>>
    /\ UNCHANGED handlerVars

\* handleConn(nil): `defer conn.Close()` on a nil net.Conn panics, and a
\* panic no goroutine recovers ends the process
HandleNilConn ==
    /\ alive
    /\ \E i \in DOMAIN sess :
          /\ sess[i].at = "handle"
          /\ sess[i].conn = "nil"
    /\ alive' = FALSE
    /\ UNCHANGED <<sess, dir>>
    /\ UNCHANGED handlerVars

\* handleConn on a connection, up to its copy: it returns before the copy
\* (untrusted peer, failed temp file, failed banner, failed stat, capture
\* not over the floor), with or without an error, or it reaches the copy
\* with its capture and its message name
HandleSession ==
    /\ alive
    /\ \E i \in DOMAIN sess :
          /\ sess[i].at = "handle"
          /\ sess[i].conn = "open"
          /\ \/ \E e \in BOOLEAN :
                   sess' = [sess EXCEPT ![i].at = "ended", ![i].err = e,
                                        ![i].conn = "closed"]
             \/ \E d \in Captures, now \in ServerClock :
                   sess' = [sess EXCEPT
                               ![i].at = "create",
                               ![i].data = d,
                               ![i].dst = messageName(sanitizeAddr(LineRcpt),
                                                      toIPAddress(RemoteAddr), now)]
    /\ UNCHANGED <<alive, dir>>
    /\ UNCHANGED handlerVars

\* os.Create(dst): the file exists and is empty
osCreate(files, dst) == (dst :> <<>>) @@ files

\* a write of data at offset 0 of the file dst as it is now
fileWrite(files, dst, data) ==
    LET old == IF dst \in DOMAIN files THEN files[dst] ELSE <<>>
    IN  (dst :> (data \o SubSeq(old, Len(data) + 1, Len(old)))) @@ files

\* copyFileContents: os.Open(src), then os.Create(dst)
CopyCreate ==
    /\ alive
    /\ \E i \in DOMAIN sess :
          /\ sess[i].at = "create"
          /\ \E ok \in BOOLEAN :
                IF ok
                THEN /\ dir' = osCreate(dir, sess[i].dst)
                     /\ sess' = [sess EXCEPT ![i].at = "write"]
                ELSE /\ dir' = dir
                     /\ sess' = [sess EXCEPT ![i].at = "ended", ![i].err = TRUE,
                                             ![i].conn = "closed"]
    /\ UNCHANGED alive
    /\ UNCHANGED handlerVars

\* copyFileContents: io.Copy(out, in)
CopyWrite ==
    /\ alive
    /\ \E i \in DOMAIN sess :
          /\ sess[i].at = "write"
          /\ dir' = fileWrite(dir, sess[i].dst, sess[i].data)
          /\ sess' = [sess EXCEPT ![i].at = "close"]
    /\ UNCHANGED alive
    /\ UNCHANGED handlerVars

\* copyFileContents: out.Close(), and the return of handleConn
CopyClose ==
    /\ alive
    /\ \E i \in DOMAIN sess :
          /\ sess[i].at = "close"
          /\ sess' = [sess EXCEPT ![i].at = "copied", ![i].conn = "closed"]
    /\ UNCHANGED <<alive, dir>>
    /\ UNCHANGED handlerVars

NextServer ==
    \/ Accept
    \/ HandleNilConn
    \/ HandleSession
    \/ CopyCreate
    \/ CopyWrite
    \/ CopyClose

SpecServer == InitServer /\ [][NextServer]_vars

(***************************************************************************)
(* Vocabulary of the properties.                                           *)
(***************************************************************************)
Last(s) == s[Len(s)]

IsPrefix(s, t) == Len(s) <= Len(t) /\ SubSeq(t, 1, Len(s)) = s

IsSuffix(s, t) == Len(s) <= Len(t) /\ SubSeq(t, Len(t) - Len(s) + 1, Len(t)) = s

\* the concatenation of the lines of ls, in order
RECURSIVE Flatten(_)
Flatten(ls) == IF ls = <<>> THEN <<>> ELSE Head(ls) \o Flatten(Tail(ls))

\* the first space-delimited token of a line, in upper case
FirstToken(line) ==
    LET t  == TrimSpace(line)
        sp == {i \in DOMAIN t : t[i] = " "}
    IN  ToUpper(IF sp = {} THEN t
                ELSE SubSeq(t, 1, (CHOOSE i \in sp : \A j \in sp : i <= j) - 1))

\* the reply the reply table of the specification gives a line
TabledReply(line) ==
    LET tok == FirstToken(line)
    IN  CASE tok \in { <<"E", "H", "L", "O">>, <<"H", "E", "L", "O">>,
                       <<"M", "A", "I", "L">>, <<"R", "C", "P", "T">>,
                       <<"R", "S", "E", "T">>, <<"V", "R", "F", "Y">>,
                       <<"N", "O", "O", "P">> } -> "250 yes sir"
          [] tok = <<"D", "A", "T", "A">> -> "354 fill 'er up"
          [] tok \in { <<"E", "X", "P", "N">>, <<"H", "E", "L", "P">> } -> "502 *shrugs*"
          [] tok = <<"Q", "U", "I", "T">> -> "221 goodbye"
          [] OTHER -> "250 yes sir"

\* this step is an iteration of the loop on a line the Line Reader returned
LineStep == pc = "loop" /\ lines' # lines

\* this step is a call of the Line Reader that failed
FailedReadStep == pc = "loop" /\ reads' = reads + 1 /\ lines' = lines

\* this step wrote exactly one line to the peer, and it was reply
WroteOne(reply) ==
    /\ Len(sent') = Len(sent) + 1
    /\ SubSeq(sent', 1, Len(sent)) = sent
    /\ Last(sent').line = reply

\* the temporary capture file exists
Capturing == output.state \in {"open", "closed"}

(***************************************************************************)
(* C1: for every line processed outside DATA mode exactly one reply line   *)
(* is written to the peer, the one the table gives the line's first token, *)
(* compared without regard to letter case: 250 for EHLO, HELO, MAIL, RCPT, *)
(* RSET, VRFY, NOOP, 354 for DATA, 502 for EXPN and HELP, 221 for QUIT,    *)
(* and 250 for any other token, the empty line included.                   *)
(***************************************************************************)
C1_OneTabledReply ==
    [][(LineStep /\ ~readingData) => WroteOne(TabledReply(Last(lines')))]_vars

C1_Witness ==
    /\ lines = <<LineExpn, LineQuitLower>>
    /\ [i \in DOMAIN sent |-> sent[i].line] =
          <<ReplyServiceReady, "502 *shrugs*", "221 goodbye">>

(***************************************************************************)
(* C2, as claimed: in DATA mode every line read, body line or dot-line,    *)
(* causes one reply line to be written.                                    *)
(***************************************************************************)
C2_ReplyPerDataLine ==
    [][(LineStep /\ readingData) => Len(sent') = Len(sent) + 1]_vars

(***************************************************************************)
(* C2, amended: in DATA mode a line read causes a reply only when its      *)
(* first byte is '.', the line that ends DATA mode, and then exactly one,  *)
(* '250 yes sir'; any other body line is captured and nothing is written.  *)
(***************************************************************************)
C2_ReplyOnlyOnDotLine ==
    [][(LineStep /\ readingData) =>
          /\ output'.data = output.data \o Last(lines')
          /\ IF Last(lines')[1] = "."
             THEN WroteOne("250 yes sir")
             ELSE sent' = sent]_vars

C2_Witness ==
    /\ lines = <<LineData, LineSubject, LineDot>>
    /\ [i \in DOMAIN sent |-> sent[i].line] =
          <<ReplyServiceReady, "354 fill 'er up", "250 yes sir">>

(***************************************************************************)
(* C3: DATA mode lasts from a DATA command processed outside DATA mode to  *)
(* the first later line whose first byte is '.'; that line ends the mode,  *)
(* is already in the capture and gets one reply; afterwards lines are      *)
(* commands again, so that another DATA command enters DATA mode again.    *)
(***************************************************************************)
C3_DataMode ==
    [][/\ LineStep =>
            /\ readingData' =
                  IF readingData THEN Last(lines')[1] # "."
                  ELSE FirstToken(Last(lines')) = <<"D", "A", "T", "A">>
            /\ (readingData /\ Last(lines')[1] = ".") =>
                  /\ output'.data = output.data \o Last(lines')
                  /\ Len(sent') = Len(sent) + 1
       /\ ~LineStep => readingData' = readingData]_vars

C3_Witness ==
    /\ lines = <<LineData, LineDot, LineData>>
    /\ readingData
    /\ Len(sent) = 4

(***************************************************************************)
(* C4: while the capture exists it is the concatenation, in arrival order, *)
(* of all the lines the Line Reader has returned, and a step only appends  *)
(* to it: the capture before the step is a prefix of the capture after.    *)
(***************************************************************************)
C4_CaptureIsAllLines ==
    [][/\ Capturing' => output'.data = Flatten(lines')
       /\ (Capturing /\ Capturing') => IsPrefix(output.data, output'.data)]_vars

C4_Witness ==
    /\ pc = "finalize"
    /\ lines = <<LineMail, LineRcpt, LineData, LineBody, LineDot, LineQuit>>
    /\ output.data =
          LineMail \o LineRcpt \o LineData \o LineBody \o LineDot \o LineQuit

(***************************************************************************)
(* C5: at finalization the recipient that names the artifact is the        *)
(* Address Sanitizer's result for the last RCPT command processed outside  *)
(* DATA mode, whatever it is (the sentinel too, when that line carries no  *)
(* address), and the sentinel 'invalid@addr' when there was no such        *)
(* command.                                                                *)
(***************************************************************************)
\* the recipient after the lines ls[i..], when addr is the recipient and
\* inData the mode before them
RECURSIVE LastRcpt(_, _, _, _)
LastRcpt(ls, i, inData, addr) ==
    IF i > Len(ls) THEN addr
    ELSE IF inData /\ ls[i][1] # "." THEN LastRcpt(ls, i + 1, TRUE, addr)
    ELSE LastRcpt(ls, i + 1,
                  FirstToken(ls[i]) = <<"D", "A", "T", "A">>,
                  IF FirstToken(ls[i]) = <<"R", "C", "P", "T">>
                  THEN sanitizeAddr(ls[i]) ELSE addr)

C5_LastRcptNames ==
    LET rcpt == LastRcpt(lines, 1, FALSE,
                         <<"i", "n", "v", "a", "l", "i", "d", "@", "a", "d", "d", "r">>)
    IN  /\ pc \in {"finalize", "copy"} => toAddr = rcpt
        /\ \A name \in DOMAIN dir : name[1] = rcpt

C5_Witness ==
    /\ lines = <<LineRcpt, LineRcptEmpty, LineSubject>>
    /\ \E name \in DOMAIN dir : name[1] = defaultAddr

(***************************************************************************)
(* C6: when a QUIT line is processed outside DATA mode it is in the        *)
(* capture, '221 goodbye' is the last line written to the peer, no further *)
(* line is read, and the session goes on to Finalizing and then closes the *)
(* connection.                                                             *)
(***************************************************************************)
\* the loop was left and no read failed: it was left by QUIT
LeftByQuit == pc \in {"finalize", "copy", "done"} /\ lines # <<>> /\ reads = Len(lines)

C6_QuitEndsSession ==
    [][/\ (LineStep /\ ~readingData
            /\ FirstToken(Last(lines')) = <<"Q", "U", "I", "T">>) =>
           /\ pc' = "finalize"
           /\ IsSuffix(Last(lines'), output'.data)
           /\ WroteOne("221 goodbye")
           /\ LeftByQuit'
       /\ LeftByQuit =>
           /\ reads' = reads /\ wire' = wire /\ lines' = lines
           /\ sent' = sent
           /\ pc' \in {"copy", "done"}
           /\ pc' = "done" => ~connOpen'
       /\ (LeftByQuit /\ pc # "done") => ENABLED (Finalize \/ Copy)]_vars

C6_Witness ==
    /\ pc = "done"
    /\ ~connOpen
    /\ lines = <<LineRcpt, LineSubject, LineQuit>>
    /\ Last(sent).line = "221 goodbye"
    /\ wire = <<>>
    /\ DOMAIN dir # {}

(***************************************************************************)
(* C7: a read failure, in or out of DATA mode, ends the loop without any   *)
(* further reply, the bytes of the unfinished line are not in the capture, *)
(* and Finalizing follows as after QUIT: the lines captured so far are     *)
(* persisted under the same size condition.                                *)
(***************************************************************************)
\* the last call of the Line Reader failed
ReadFailed == reads = Len(lines) + 1

C7_ReadFailureFinalizes ==
    [][/\ FailedReadStep =>
            /\ sent' = sent
            /\ output' = output
            /\ pc' = "finalize"
            /\ bytesRead' = 0
       /\ Capturing' =>
            \/ output'.data = <<>>
            \/ Last(output'.data) = "\n"
       /\ (ReadFailed /\ pc = "finalize") =>
            /\ sent' = sent
            /\ pc' = "copy" => Len(output.data) > 50
            /\ (pc' = "done" /\ ret' = "end") => Len(output.data) <= 50
       /\ (ReadFailed /\ pc = "copy" /\ ret' = "end") =>
            \E name \in DOMAIN dir' :
               DOMAIN dir' = {name} /\ dir'[name] = Flatten(lines)]_vars

C7_Witness ==
    /\ pc = "done"
    /\ ret = "end"
    /\ readingData
    /\ rawData = FragQuit
    /\ bytesRead = 0
    /\ \E name \in DOMAIN dir : dir[name] = LineData \o LineSubject \o LineBody

(***************************************************************************)
(* C8: a session writes a final artifact if and only if the capture is     *)
(* larger than 50 bytes at finalization, and the artifact's bytes are the  *)
(* capture; a session that captured 50 bytes or fewer, none at all         *)
(* included, leaves no artifact.  (A session that ends on a reported stat  *)
(* or copy error is the code's error path: it has no whole artifact.)      *)
(***************************************************************************)
C8_ArtifactIffOverFloor ==
    (pc = "done" /\ output.state = "removed") =>
        LET capture == Flatten(lines)
        IN  /\ DOMAIN dir # {} => Len(capture) > 50
            /\ Len(capture) <= 50 => DOMAIN dir = {}
            /\ ret = "end" =>
                  IF Len(capture) > 50
                  THEN \E name \in DOMAIN dir :
                          DOMAIN dir = {name} /\ dir[name] = capture
                  ELSE DOMAIN dir = {}

C8_Witness ==
    /\ pc = "done"
    /\ ret = "end"
    /\ Len(Flatten(lines)) = 51
    /\ \E name \in DOMAIN dir : dir[name] = Flatten(lines)

(***************************************************************************)
(* C9: for a peer that a blocklist zone lists, with spam detection on, the *)
(* session writes nothing to the peer, reads nothing from it, creates no   *)
(* temporary file and no artifact, and closes the connection.              *)
(***************************************************************************)
C9_UntrustedGetsNothing ==
    (spamDetection /\ \E z \in DOMAIN resolver : resolver[z] = "ok") =>
        /\ sent = <<>>
        /\ reads = 0
        /\ lines = <<>>
        /\ output.state = "none"
        /\ DOMAIN dir = {}
        /\ pc \in {"accept", "lookup", "done"}
        /\ pc = "done" => (ret = "discard" /\ ~connOpen)

C9_Witness ==
    /\ pc = "done"
    /\ ret = "discard"
    /\ ~connOpen
    /\ Len(wire) > 50
    /\ sent = <<>>

(***************************************************************************)
(* C10: the peer is classified untrusted exactly when some zone lookup     *)
(* returns without error; the zones are queried one at a time in list      *)
(* order, none after the first lookup that succeeds; a lookup that fails,  *)
(* for whatever reason, counts as not listed, so that a peer all of whose  *)
(* lookups fail is trusted.                                                *)
(***************************************************************************)
C10_Classification ==
    /\ \A i \in DOMAIN queried : queried[i] = i
    /\ \A i \in DOMAIN queried : i < Len(queried) => resolver[queried[i]] # "ok"
    /\ (spamDetection /\ pc \notin {"accept", "lookup"}) =>
          /\ ret = "discard" <=> \E i \in DOMAIN queried : resolver[queried[i]] = "ok"
          /\ ret = "discard" <=> \E z \in DOMAIN serverBlocklist : resolver[z] = "ok"
          /\ ret # "discard" => queried = [i \in DOMAIN serverBlocklist |-> i]

C10_Witness ==
    /\ spamDetection
    /\ pc = "loop"
    /\ resolver = <<"servfail", "nxdomain", "servfail", "nxdomain">>
    /\ queried = <<1, 2, 3, 4>>

(***************************************************************************)
(* C11: a failed write to the peer and the rest of the session.            *)
(***************************************************************************)
\* some write to the peer, the banner or a reply, has failed
WriteFailed == \E i \in DOMAIN sent : ~sent[i].ok

\* C11: a failed network write, of the banner or of any command reply,
\* aborts the session at once: after it the session reads no further line
\* and writes no further reply.
C11_WriteFailureAborts ==
    [][WriteFailed => (reads' = reads /\ sent' = sent)]_vars

(***************************************************************************)
(* C12: one whole delivery from a trusted peer.                            *)
(***************************************************************************)
\* s has sub as a contiguous part
Contains(s, sub) ==
    \E i \in 0..(Len(s) - Len(sub)) : SubSeq(s, i + 1, i + Len(sub)) = sub

\* the handler has returned from a session in which exactly the lines of the
\* delivery were read, without a reported stat or copy error
DeliveryDone == pc = "done" /\ ret = "end" /\ lines = DeliveryLines

\* the banner, then the six replies of the delivery
DeliveryReplies ==
    <<ReplyServiceReady, ReplyOkay, ReplyOkay, ReplyOkay, ReplyStartMailInput,
      ReplyOkay, ReplyServiceClosing>>

\* what the delivery leaves on the connection and in the capture
DeliveryAnswered ==
    /\ [i \in DOMAIN sent |-> sent[i].line] = DeliveryReplies
    /\ ~connOpen
    /\ DOMAIN dir # {}
    /\ \A n \in DOMAIN dir : dir[n] = Flatten(DeliveryLines)

\* C12 as stated: the session EHLO x, MAIL FROM:<a@b.com>, RCPT TO:<c@d.com>,
\* DATA, one body line, the dot-line, QUIT from a trusted peer gets six
\* replies ending with '221 goodbye', the connection closes, and a final
\* artifact holds every transmitted line and is named using a.b.com and
\* c.d.com.
C12_DeliveryNamedByBothAddresses ==
    DeliveryDone =>
        /\ DeliveryAnswered
        /\ \A n \in DOMAIN dir :
              /\ \E k \in 1..2 : Contains(n[k], <<"a", ".", "b", ".", "c", "o", "m">>)
              /\ \E k \in 1..2 : Contains(n[k], <<"c", ".", "d", ".", "c", "o", "m">>)

\* C12, amended: the same session gets six replies ending with
\* '221 goodbye', the connection closes, and the final artifact holds every
\* transmitted line; its name is built from the sanitized recipient c@d.com,
\* the peer's reversed IP address and the time of the copy, and the sender
\* a@b.com has no part in it.
C12_DeliveryNamedByRecipient ==
    DeliveryDone =>
        /\ DeliveryAnswered
        /\ \A n \in DOMAIN dir :
              /\ n[1] = <<"c", "@", "d", ".", "c", "o", "m">>
              /\ n[2] = <<"7", ".", "2", ".", "0", ".", "1", "9", "2">>
              /\ n[3] \in Clock
              /\ \A k \in 1..2 : ~Contains(n[k], <<"a">>)

C12_Witness ==
    /\ DeliveryDone
    /\ Len(sent) = 7
    /\ Last(sent).line = ReplyServiceClosing
    /\ DOMAIN dir # {}

(***************************************************************************)
(* C14: a line longer than the buffer.                                     *)
(***************************************************************************)
\* the position of the first '\n' of w, 0 when it has none
FirstNewline(w) ==
    LET nl == {i \in DOMAIN w : w[i] = "\n"}
    IN  IF nl = {} THEN 0 ELSE CHOOSE i \in nl : \A j \in nl : i <= j

\* this step is a call of the Line Reader on a stream whose first line has
\* more bytes than rawData holds
LongLineStep ==
    pc = "loop" /\ reads' = reads + 1 /\ FirstNewline(wire) > BufCap

\* C14: for a line longer than 1024 bytes the Line Reader writes at most
\* the capacity into the buffer, consumes the stream through that line's
\* '\n' and returns success, so that the next call starts at the following
\* line and the session goes on.
C14_LongLineConsumed ==
    [][LongLineStep =>
          /\ lines' # lines
          /\ bytesRead' \in 1..BufCap
          /\ Len(rawData') <= BufCap
          /\ wire' = SubSeq(wire, FirstNewline(wire) + 1, Len(wire))
          /\ pc' = "loop"]_vars

(***************************************************************************)
(* C15: once the temporary file has been created, it no longer exists when *)
(* the handler returns, whichever way the handler returns: after QUIT,     *)
(* after a read failure, after a failed banner write, after a failed stat, *)
(* with a capture not over the floor, after the copy and after a failed    *)
(* copy.                                                                   *)
(***************************************************************************)
C15_TempFileRemoved ==
    [][(Capturing /\ pc' = "done") =>
          (output'.state = "removed" /\ ret' \in {"banner", "stat", "end", "copy"})]_vars

C15_Witness ==
    /\ pc = "done"
    /\ ret = "copy"
    /\ output.state = "removed"
    /\ DOMAIN dir # {}

(***************************************************************************)
(* C16: what a step of the loop may change.                                *)
(***************************************************************************)
\* the first token, in upper case, of the line this step read
StepToken == FirstToken(Last(lines'))

\* C16: the stored recipient changes only when an RCPT command is processed
\* outside DATA mode; DATA mode is entered only by a DATA command processed
\* outside DATA mode and left only by a line whose first byte is '.'; the
\* loop ends only on QUIT processed outside DATA mode or on a read failure.
\* So every other command and every unknown line outside DATA mode, and
\* every body line inside DATA mode, also one that reads QUIT, RCPT or DATA,
\* leaves the recipient and the mode as they were and does not end the
\* session.
C16_Frame ==
    [][/\ (toAddr' # toAddr /\ pc # "tempfile") =>
              (LineStep /\ ~readingData /\ StepToken = <<"R", "C", "P", "T">>)
       /\ (~readingData /\ readingData') =>
              (LineStep /\ StepToken = <<"D", "A", "T", "A">>)
       /\ (readingData /\ ~readingData') =>
              (LineStep /\ Last(lines')[1] = ".")
       /\ (pc = "loop" /\ pc' # "loop") =>
              \/ FailedReadStep
              \/ LineStep /\ ~readingData /\ StepToken = <<"Q", "U", "I", "T">>
       /\ (LineStep /\ readingData /\ Last(lines')[1] # ".") =>
              (toAddr' = toAddr /\ readingData' /\ pc' = "loop")
       /\ (LineStep /\ ~readingData
             /\ StepToken \notin {<<"R", "C", "P", "T">>, <<"D", "A", "T", "A">>,
                                  <<"Q", "U", "I", "T">>}) =>
              (toAddr' = toAddr /\ ~readingData' /\ pc' = "loop")]_vars

C16_Witness ==
    /\ lines = <<LineData, LineQuit>>
    /\ pc = "loop"
    /\ readingData
    /\ toAddr = defaultAddr

(***************************************************************************)
(* C17: the order of the reputation check, the banner and the first read.  *)
(***************************************************************************)
\* how many of the lines written to the peer are the banner
Banners == Cardinality({i \in DOMAIN sent : sent[i].line = ReplyServiceReady})

\* C17: the reputation check is performed at most once per session, and
\* only when spam detection is enabled, and it is over before anything is
\* written to or read from the connection; for a peer that is not classified
\* untrusted the banner is written exactly once, before the first read, and
\* without waiting for any input of the client.
C17_CheckThenBannerThenRead ==
    /\ ~spamDetection => queried = <<>>
    /\ \A i \in DOMAIN queried : queried[i] = i
    /\ pc \in {"accept", "lookup"} => (sent = <<>> /\ reads = 0)
    /\ (sent # <<>> \/ reads > 0) => (pc # "lookup" /\ ret # "discard")
    /\ pc = "banner" => (sent = <<>> /\ reads = 0 /\ ENABLED Banner)
    /\ pc \in {"loop", "finalize", "copy"} => (Banners = 1 /\ sent[1].line = ReplyServiceReady)
    /\ reads > 0 => (Banners = 1 /\ sent[1].line = ReplyServiceReady /\ sent[1].ok)
    /\ Banners <= 1

C17_Witness ==
    /\ spamDetection
    /\ Len(queried) = Len(serverBlocklist)
    /\ wire = <<>>
    /\ pc = "loop"
    /\ reads = 0
    /\ Banners = 1

(***************************************************************************)
(* C18: the sanitizer on the lines the command table takes for RCPT.       *)
(***************************************************************************)
\* the match of the sanitizer's pattern on a line, letter case disregarded
FoldedMatch(line) == FindSubmatch(ToUpper(line))

\* the line is one the command table takes for RCPT, in any letter case,
\* and carries TO: in any letter case and then a non-empty bracketed address
RcptWithAddress(line) ==
    /\ replyCommand(line).cmd = CommandRcpt
    /\ Contains(ToUpper(line), <<"T", "O", ":">>)
    /\ FoldedMatch(line).found
    /\ FoldedMatch(line).addr # <<>>

\* C18: for every line the command table recognizes as RCPT, in any letter
\* case, which carries a non-empty bracketed address after TO: in any letter
\* case, the sanitizer returns the content of the brackets with each run of
\* disallowed bytes replaced by '.', and not the sentinel.
C18_RcptAnyCaseSanitized ==
    (pc = "sanitized" /\ RcptWithAddress(rawData)) =>
        /\ toAddr # defaultAddr
        /\ ToUpper(toAddr) = ReplaceRuns(FoldedMatch(rawData).addr)

Copiers(n) == {i \in DOMAIN sess : sess[i].dst = n /\ sess[i].at \in {"write", "close", "copied"}}

Settled(n) == \A i \in DOMAIN sess : sess[i].dst = n => sess[i].at \in {"copied", "ended"}

\* C13: when two sessions that run concurrently copy to the same final
\* path, then under every interleaving of the steps of their copies (create
\* or truncate, write, close) the file holds in the end exactly the capture
\* of one session, the one whose copy came later, and never a mixture of
\* the two; and sessions with distinct paths never touch each other's
\* artifact.  Stated here in its weaker form: the file holds exactly the
\* capture of one of the sessions that copied to it.
C13_NoMixture ==
    \A n \in DOMAIN dir :
        (Settled(n) /\ Copiers(n) # {}) =>
            \E i \in Copiers(n) : dir[n] = sess[i].data

(***************************************************************************)
(* C20: errors after startup.                                              *)
(***************************************************************************)
\* C20: after startup no runtime error ends the process: when accept
\* returns an error the listener starts no handler for that failed accept
\* and goes on accepting, and an error inside one session ends that session
\* only, while the other sessions and the listener continue.
C20_ProcessSurvives ==
    /\ alive
    /\ \A i \in DOMAIN sess : sess[i].conn # "nil"
    /\ (Len(sess) < MaxConns) => ENABLED Accept

=============================================================================
